---- MODULE Spec2Model ----
(***************************************************************************)
(* Model of the meilisearch-mcp tool-dispatch gateway:                     *)
(*   - chat.py    ChatManager.chat_completion_stream (the SSE decoder)     *)
(*   - server.py  MeilisearchMCPServer (connection state, update_connection*)
(*                and the handle_call_tool dispatcher)                     *)
(*                                                                         *)
(* Python values are tagged records, so that values of different Python    *)
(* types can be put in one set and compared.                               *)
(***************************************************************************)
EXTENDS Integers, Sequences, FiniteSets, TLC

(***************************************************************************)
(* Python / JSON values.                                                   *)
(***************************************************************************)
None == [t |-> "null"]
Str(s) == [t |-> "str", s |-> s]
Num(n) == [t |-> "num", n |-> n]
Bool(b) == [t |-> "bool", b |-> b]
List(q) == [t |-> "list", items |-> q]
Dict(m) == [t |-> "dict", map |-> m]
EmptyDict == Dict(<<>>)
\* an instance of a class of the backend library, with its __dict__
Obj(cls, attrs) == [t |-> "object", cls |-> cls, attrs |-> attrs]
\* the coroutine object a call of an `async def` function returns
Coroutine(name) == [t |-> "coroutine", name |-> name]

\* The result of evaluating a Python expression: a value, or a raised exception
\* (its class and str(e)).
Ok(v) == [raised |-> FALSE, val |-> v]
Raise(cls, msg) == [raised |-> TRUE, cls |-> cls, msg |-> msg]

\* type(v).__name__, as it appears in the interpreter's error messages
TypeName(v) ==
  CASE v.t = "null" -> "NoneType"
    [] v.t = "str"  -> "str"
    [] v.t = "num"  -> "int"
    [] v.t = "bool" -> "bool"
    [] v.t = "list" -> "list"
    [] v.t = "dict" -> "dict"
    [] v.t = "object"    -> v.cls
    [] v.t = "coroutine" -> "coroutine"

\* bool(v): None, "", 0, False, [] and {} are falsy
PyTruthy(v) ==
  CASE v.t = "null" -> FALSE
    [] v.t = "str"  -> v.s # ""
    [] v.t = "num"  -> v.n # 0
    [] v.t = "bool" -> v.b
    [] v.t = "list" -> Len(v.items) > 0
    [] v.t = "dict" -> DOMAIN v.map # {}
    [] v.t = "object"    -> TRUE
    [] v.t = "coroutine" -> TRUE

\* `key in v` for a string key.  On a str it is the substring test; the strings
\* of this model contain the key only when they are equal to it.
PyIn(key, v) ==
  CASE v.t = "dict" -> Ok(key \in DOMAIN v.map)
    [] v.t = "list" -> Ok(\E i \in 1..Len(v.items) : v.items[i] = Str(key))
    [] v.t = "str"  -> Ok(v.s = key)
    [] OTHER -> Raise("TypeError",
                      "argument of type '" \o TypeName(v) \o "' is not iterable")

\* v[key] for a string key
PyGetItem(v, key) ==
  CASE v.t = "dict" -> IF key \in DOMAIN v.map THEN Ok(v.map[key])
                       ELSE Raise("KeyError", "'" \o key \o "'")
    [] v.t = "list" -> Raise("TypeError",
                             "list indices must be integers or slices, not str")
    [] v.t = "str"  -> Raise("TypeError", "string indices must be integers, not 'str'")
    [] OTHER -> Raise("TypeError",
                      "'" \o TypeName(v) \o "' object is not subscriptable")

\* v[0].  (No payload of this model has a string at a subscripted position.)
PyIndex0(v) ==
  CASE v.t = "list" -> IF Len(v.items) > 0 THEN Ok(v.items[1])
                       ELSE Raise("IndexError", "list index out of range")
    [] v.t = "dict" -> Raise("KeyError", "0")
    [] OTHER -> Raise("TypeError",
                      "'" \o TypeName(v) \o "' object is not subscriptable")

\* v.get(key, default): only a dict has the method
PyGet(v, key, default) ==
  IF v.t = "dict"
  THEN Ok(IF key \in DOMAIN v.map THEN v.map[key] ELSE default)
  ELSE Raise("AttributeError",
             "'" \o TypeName(v) \o "' object has no attribute 'get'")

(***************************************************************************)
(* The SSE decoder of ChatManager.chat_completion_stream.                  *)
(* A line is its first six characters (pre) and the rest (data), so that   *)
(* line.startswith("data: ") and line[6:] are what the code computes.      *)
(***************************************************************************)
Line(pre, data) == [pre |-> pre, data |-> data]
DataLine(data) == Line("data: ", data)

Delta(content) == Dict("delta" :> Dict("content" :> content))
Choices(c) == Dict("choices" :> c)

\* json.loads(data) on the payloads of the model
JsonLoads(data) ==
  CASE data = "{\"choices\":[{\"delta\":{\"content\":\"A\"}}]}"
         -> Ok(Choices(List(<<Delta(Str("A"))>>)))
    [] data = "{\"choices\":[{\"delta\":{\"content\":\"B\"}}]}"
         -> Ok(Choices(List(<<Delta(Str("B"))>>)))
    [] data = "{\"choices\":[{\"delta\":{\"content\":\"Error: \"}}]}"
         -> Ok(Choices(List(<<Delta(Str("Error: "))>>)))
    [] data = "{\"choices\":[{\"delta\":{\"content\":\"\"}}]}"
         -> Ok(Choices(List(<<Delta(Str(""))>>)))
    [] data = "{\"choices\":[{\"delta\":{\"content\":null}}]}"
         -> Ok(Choices(List(<<Delta(None)>>)))
    [] data = "{\"choices\":[{\"delta\":{\"content\":5}}]}"
         -> Ok(Choices(List(<<Delta(Num(5))>>)))
    [] data = "{\"choices\":[{\"delta\":{}}]}"
         -> Ok(Choices(List(<<Dict("delta" :> EmptyDict)>>)))
    [] data = "{\"choices\":[{\"delta\":null}]}"
         -> Ok(Choices(List(<<Dict("delta" :> None)>>)))
    [] data = "{\"choices\":[{}]}"      -> Ok(Choices(List(<<EmptyDict>>)))
    [] data = "{\"choices\":[5]}"       -> Ok(Choices(List(<<Num(5)>>)))
    [] data = "{\"choices\":[]}"        -> Ok(Choices(List(<<>>)))
    [] data = "{\"choices\":5}"         -> Ok(Choices(Num(5)))
    [] data = "{\"choices\":{\"a\":1}}" -> Ok(Choices(Dict("a" :> Num(1))))
    [] data = "{}"                      -> Ok(EmptyDict)
    [] data = "[]"                      -> Ok(List(<<>>))
    [] data = "[\"choices\"]"           -> Ok(List(<<Str("choices")>>))
    [] data = "\"choices\""             -> Ok(Str("choices"))
    [] data = "\"abc\""                 -> Ok(Str("abc"))
    [] data = "5"                       -> Ok(Num(5))
    [] data = "null"                    -> Ok(None)
    [] OTHER -> Raise("JSONDecodeError", "Expecting value: line 1 column 1 (char 0)")

\* What one parsed chunk makes the generator do: lines 72-79 of chat.py.
\*   [act |-> "skip"], [act |-> "yield", content |-> v] or
\*   [act |-> "raise", cls |-> c, msg |-> m]
Skip == [act |-> "skip"]
Yield(v) == [act |-> "yield", content |-> v]
Break == [act |-> "break"]
Throw(r) == [act |-> "raise", cls |-> r.cls, msg |-> r.msg]

ExtractContent(chunk) ==
  LET has == PyIn("choices", chunk) IN
  IF has.raised THEN Throw(has)
  ELSE IF ~has.val THEN Skip
  ELSE LET ch == PyGetItem(chunk, "choices") IN
    IF ch.raised THEN Throw(ch)
    ELSE IF ~PyTruthy(ch.val) THEN Skip
    ELSE LET c0 == PyIndex0(ch.val) IN
      IF c0.raised THEN Throw(c0)
      ELSE LET delta == PyGet(c0.val, "delta", EmptyDict) IN
        IF delta.raised THEN Throw(delta)
        ELSE LET content == PyGet(delta.val, "content", Str("")) IN
          IF content.raised THEN Throw(content)
          ELSE IF PyTruthy(content.val) THEN Yield(content.val)
          ELSE Skip

\* (mutant: a payload json.loads rejects ends the loop instead of being skipped)
ProcessLine_BreakOnBadJson(line) ==
  IF line.pre # "data: " THEN Skip
  ELSE IF line.data = "[DONE]" \/ JsonLoads(line.data).raised THEN Break
  ELSE ExtractContent(JsonLoads(line.data).val)

\* One iteration of `async for line in response.aiter_lines()`: lines 66-81.
\* Only json.JSONDecodeError is caught; any other exception leaves the generator.
\* (parsed is the outcome of json.loads on the payload)
OnParsed(parsed) ==
  IF parsed.raised
  THEN (IF parsed.cls = "JSONDecodeError" THEN Skip ELSE Throw(parsed))
  ELSE ExtractContent(parsed.val)

ProcessLine(line) ==
  IF line.pre # "data: " THEN Skip
  ELSE IF line.data = "[DONE]" THEN Break
  ELSE OnParsed(JsonLoads(line.data))


\* The lines a backend may send (each one exercises a different path of the decoder)
StreamLines ==
  { Line("", ""),
    DataLine("[DONE]"),
    DataLine("not-json"),
    DataLine("{\"choices\":[{\"delta\":{\"content\":\"A\"}}]}"),
    DataLine("{\"choices\":[{\"delta\":{\"content\":\"B\"}}]}"),
    DataLine("{\"choices\":[{\"delta\":{\"content\":\"\"}}]}"),
    DataLine("{\"choices\":[{\"delta\":{\"content\":5}}]}"),
    DataLine("{\"choices\":[{\"delta\":null}]}"),
    DataLine("{\"choices\":[5]}"),
    DataLine("{\"choices\":[]}"),
    DataLine("{}"),
    DataLine("5") }

\* The longest response body explored
MaxLines == 3

Bodies == UNION { [1..n -> StreamLines] : n \in 0..MaxLines }

\* How the HTTP exchange goes: "ok" (the body ends cleanly), "open_fails"
\* (client.stream / raise_for_status raises) or "read_fails" (the connection
\* breaks after the lines of the body were delivered).
Transports == {"ok", "open_fails", "read_fails"}

NoExc == [cls |-> "none", msg |-> ""]
Exc(cls, msg) == [cls |-> cls, msg |-> msg]
HTTPStatusError == Exc("HTTPStatusError", "Server error '500 Internal Server Error'")
ReadError == Exc("ReadError", "peer closed connection")

\* The whole generator consumed by `async for ... response_chunks.append(chunk)`:
\* the fragments collected and the exception that ended the loop, if any.
\* (DecodeLines is the loop over the lines still to come, acc the fragments
\* collected so far; AfterLine continues it once a line was processed as r)
RECURSIVE DecodeLines(_, _, _)
RECURSIVE AfterLine(_, _, _, _)
AfterLine(r, rest, acc, tr) ==
  CASE r.act = "skip"  -> DecodeLines(rest, acc, tr)
    [] r.act = "yield" -> DecodeLines(rest, Append(acc, r.content), tr)
    [] r.act = "break" -> [chunks |-> acc, exc |-> NoExc]
    [] r.act = "raise" -> [chunks |-> acc, exc |-> Exc(r.cls, r.msg)]

DecodeLines(lines, acc, tr) ==
  IF lines = <<>>
  THEN [chunks |-> acc, exc |-> IF tr = "read_fails" THEN ReadError ELSE NoExc]
  ELSE AfterLine(ProcessLine(Head(lines)), Tail(lines), acc, tr)

chat_completion_stream(lines, transport) ==
  IF transport = "open_fails"
  THEN [chunks |-> <<>>, exc |-> HTTPStatusError]
  ELSE DecodeLines(lines, <<>>, transport)

(***************************************************************************)
(* The backend adapter and the connection state.                           *)
(***************************************************************************)
Digits == <<"0", "1", "2", "3", "4", "5", "6", "7", "8", "9">>

\* str(v) / f"{v}" on the values of the model
PyStr(v) ==
  CASE v.t = "str"  -> v.s
    [] v.t = "null" -> "None"
    [] v.t = "bool" -> (IF v.b THEN "True" ELSE "False")
    [] v.t = "num"  -> (IF v.n \in 0..9 THEN Digits[v.n + 1] ELSE "20")
    [] v = Dict("taskUid" :> Num(1)) -> "{'taskUid': 1}"
    [] v.t = "object"    -> v.cls \o "(...)"
    [] v.t = "coroutine" -> "<coroutine object " \o v.name \o " at 0x7f3a>"

\* (mutant: the Authorization header is built whether or not there is a key)
ChatManager_AlwaysAuthorization(config) ==
  IF config.url.t # "str"
  THEN Raise("AttributeError",
             "'" \o TypeName(config.url) \o "' object has no attribute 'rstrip'")
  ELSE Ok([headers |->
             ("Authorization" :> ("Bearer " \o PyStr(config.api_key)))
             @@ ("Content-Type" :> "application/json")])

\* ChatManager.__init__: url.rstrip("/") needs a str; the Authorization header
\* is kept only when the client has a (truthy) api_key.
ChatManager(config) ==
  IF config.url.t # "str"
  THEN Raise("AttributeError",
             "'" \o TypeName(config.url) \o "' object has no attribute 'rstrip'")
  ELSE Ok([headers |->
             IF PyTruthy(config.api_key)
             THEN ("Authorization" :> ("Bearer " \o PyStr(config.api_key)))
                  @@ ("Content-Type" :> "application/json")
             ELSE ("Content-Type" :> "application/json")])

\* MeilisearchClient(url, api_key): the adapter, bound to the url and the
\* credential it was built with; building it builds its ChatManager.
Bound(config, chat) == IF chat.raised THEN chat ELSE Ok(config)

MeilisearchClient(u, k) ==
  Bound([url |-> u, api_key |-> k], ChatManager([url |-> u, api_key |-> k]))

\* The HTTP request a method of ChatManager issues: httpx method, path after
\* base_url, headers= and timeout= (NoTimeout when the argument is not given).
NoTimeout == [given |-> FALSE, seconds |-> 0]
Timeout(seconds) == [given |-> TRUE, seconds |-> seconds]
Http(method, path, timeout) == [method |-> method, path |-> path, timeout |-> timeout]

ChatOps ==
  { "chat.chat_completion_stream", "chat.chat_completion",
    "chat.create_chat_workspace", "chat.update_chat_workspace",
    "chat.list_chat_workspaces", "chat.get_chat_workspace",
    "chat.delete_chat_workspace" }

ChatCall(op) ==
  CASE op \in {"chat.chat_completion_stream", "chat.chat_completion"} ->
         Http("POST", "/chat/completions", Timeout(60))
    [] op = "chat.create_chat_workspace" ->
         Http("POST", "/chat/workspaces", NoTimeout)
    [] op = "chat.update_chat_workspace" ->
         Http("PATCH", "/chat/workspaces/{uid}", NoTimeout)
    [] op = "chat.list_chat_workspaces" ->
         Http("GET", "/chat/workspaces", NoTimeout)
    [] op = "chat.get_chat_workspace" ->
         Http("GET", "/chat/workspaces/{uid}", NoTimeout)
    [] op = "chat.delete_chat_workspace" ->
         Http("DELETE", "/chat/workspaces/{uid}", NoTimeout)

NoHttp == [sent |-> FALSE, call |-> Http("", "", NoTimeout), headers |-> <<>>]

\* the request the operation op of the adapter client sends, NoHttp when op is
\* not an operation of its ChatManager
HttpRequest(op, client) ==
  IF op \in ChatOps
  THEN [sent |-> TRUE, call |-> ChatCall(op),
        headers |-> ChatManager(client).val.headers]
  ELSE NoHttp

\* MeilisearchMCPServer.update_connection on the connection state conn:
\* the new state, and the exception of the rebuild if it raised.
\* (Rebound is the state once url1 and key1 are stored and the rebuild of the
\* adapter ended as client)
Rebound(conn, url1, key1, client) ==
  [conn |-> [url |-> url1, api_key |-> key1,
             meili_client |-> IF client.raised THEN conn.meili_client
                              ELSE client.val],
   out |-> IF client.raised THEN client ELSE Ok(None)]

\* (mutant: the value given is stored whatever it is)
Stored_Unconditionally(new, old) == new

Stored(new, old) == IF PyTruthy(new) THEN new ELSE old

\* (mutant: api_key is assigned whether or not one was given)
update_connection_AssignsKey(conn, u, k) ==
  Rebound(conn, Stored(u, conn.url), k, MeilisearchClient(Stored(u, conn.url), k))

update_connection(conn, u, k) ==
  Rebound(conn, Stored(u, conn.url), Stored(k, conn.api_key),
          MeilisearchClient(Stored(u, conn.url), Stored(k, conn.api_key)))

(***************************************************************************)
(* handle_list_tools: the catalog.                                         *)
(***************************************************************************)
\* types.Tool(name=..., inputSchema={"type": "object", "properties": ...,
\* "required": ..., "additionalProperties": False}): the name, the declared keys,
\* the required keys and whether other keys are allowed
Tool(name, properties, required) ==
  [name |-> name, properties |-> properties, required |-> required,
   additionalProperties |-> FALSE]

\* the list handle_list_tools returns, in its order
Catalog ==
  <<
     Tool("get-connection-settings", {}, {}),
     Tool("update-connection-settings", {"url", "api_key"}, {}),
     Tool("health-check", {}, {}),
     Tool("get-version", {}, {}),
     Tool("get-stats", {}, {}),
     Tool("create-index", {"uid", "primaryKey"}, {"uid"}),
     Tool("list-indexes", {}, {}),
     Tool("delete-index", {"uid"}, {"uid"}),
     Tool("get-documents", {"indexUid", "offset", "limit"}, {"indexUid"}),
     Tool("add-documents",
          {"indexUid", "documents", "primaryKey"},
          {"indexUid", "documents"}),
     Tool("get-settings", {"indexUid"}, {"indexUid"}),
     Tool("update-settings",
          {"indexUid", "settings"},
          {"indexUid", "settings"}),
     Tool("search",
          {"query", "indexUid", "limit", "offset", "filter", "sort"},
          {"query"}),
     Tool("get-task", {"taskUid"}, {"taskUid"}),
     Tool("get-tasks",
          {"limit", "from", "reverse", "batchUids", "uids", "canceledBy",
           "types", "statuses", "indexUids", "afterEnqueuedAt",
           "beforeEnqueuedAt", "afterStartedAt", "beforeStartedAt",
           "afterFinishedAt", "beforeFinishedAt"},
          {}),
     Tool("cancel-tasks", {"uids", "indexUids", "types", "statuses"}, {}),
     Tool("get-keys", {"offset", "limit"}, {}),
     Tool("create-key",
          {"description", "actions", "indexes", "expiresAt"},
          {"actions", "indexes"}),
     Tool("delete-key", {"key"}, {"key"}),
     Tool("get-health-status", {}, {}),
     Tool("get-index-metrics", {"indexUid"}, {"indexUid"}),
     Tool("get-system-info", {}, {}),
     Tool("chat-completion",
          {"query", "model", "temperature", "maxTokens", "indexUids",
           "workspaceUid", "stream"},
          {"query"}),
     Tool("create-chat-workspace",
          {"uid", "name", "description", "model", "temperature", "maxTokens",
           "indexUids"},
          {"uid", "name"}),
     Tool("update-chat-workspace",
          {"uid", "name", "description", "model", "temperature", "maxTokens",
           "indexUids"},
          {"uid"}),
     Tool("list-chat-workspaces", {"limit", "offset"}, {}),
     Tool("get-chat-workspace", {"uid"}, {"uid"}),
     Tool("delete-chat-workspace", {"uid"}, {"uid"}) >>

\* (mutant: the chat tools are listed only while a credential is stored)
handle_list_tools_ChatNeedsKey(self) ==
  IF PyTruthy(self.api_key) THEN Catalog
  ELSE SelectSeq(Catalog, LAMBDA d : d.name \notin {"chat-completion"})

\* (mutant: the descriptor of delete-index is missing from the list)
handle_list_tools_NoDeleteIndex(self) ==
  SelectSeq(Catalog, LAMBDA d : d.name # "delete-index")

\* handle_list_tools, a closure over the server self that does not read it
handle_list_tools(self) == Catalog

(***************************************************************************)
(* handle_call_tool.                                                       *)
(***************************************************************************)
\* The names the if/elif chain of handle_call_tool compares with.
HandledTools ==
  { "get-connection-settings", "update-connection-settings", "create-index",
    "list-indexes", "delete-index", "get-documents", "add-documents",
    "health-check", "get-version", "get-stats", "get-settings",
    "update-settings", "search", "get-task", "get-tasks", "cancel-tasks",
    "get-keys", "create-key", "delete-key", "get-health-status",
    "get-index-metrics", "get-system-info", "chat-completion",
    "create-chat-workspace", "update-chat-workspace", "list-chat-workspaces",
    "get-chat-workspace", "delete-chat-workspace" }

\* (mutant: there is no branch for delete-key)
Branch_NoDeleteKey(name) ==
  IF name \in HandledTools \ {"delete-key"} THEN name ELSE ""

\* (mutant: the test of the update branch is always true)
Branch_UpdateTestAlwaysTrue(name) ==
  IF name = "get-connection-settings" THEN name ELSE "update-connection-settings"

\* the branch a name selects: the name itself, or "" when the chain falls through
\* to `raise ValueError(f"Unknown tool: {name}")`
Branch(name) == IF name \in HandledTools THEN name ELSE ""

\* The branches that only read arguments, call one backend operation and format
\* its result.  For each: the argument accesses made before the call, in
\* evaluation order (<<"sub", k>> is arguments[k], <<"get", k>> is
\* arguments.get(k)), the operation, and the label of the text.
SimpleTool(name) ==
  CASE name = "create-index" ->
         [access |-> << <<"sub", "uid">>, <<"get", "primaryKey">> >>,
          op |-> "indexes.create_index", label |-> "Created index: "]
    [] name = "list-indexes" ->
         [access |-> <<>>, op |-> "get_indexes", label |-> "Indexes:\n"]
    [] name = "delete-index" ->
         [access |-> << <<"sub", "uid">> >>,
          op |-> "indexes.delete_index", label |-> "Successfully deleted index: "]
    [] name = "health-check" ->
         [access |-> <<>>, op |-> "health_check", label |-> "Meilisearch is "]
    [] name = "get-version" ->
         [access |-> <<>>, op |-> "get_version", label |-> "Version info: "]
    [] name = "get-stats" ->
         [access |-> <<>>, op |-> "get_stats", label |-> "Database stats: "]
    [] name = "get-settings" ->
         [access |-> << <<"sub", "indexUid">> >>,
          op |-> "settings.get_settings", label |-> "Current settings: "]
    [] name = "update-settings" ->
         [access |-> << <<"sub", "indexUid">>, <<"sub", "settings">> >>,
          op |-> "settings.update_settings", label |-> "Settings updated: "]
    [] name = "search" ->
         [access |-> << <<"sub", "query">>, <<"get", "indexUid">>,
                        <<"get", "limit">>, <<"get", "offset">>,
                        <<"get", "filter">>, <<"get", "sort">> >>,
          op |-> "search", label |-> "Search results for "]
    [] name = "get-task" ->
         [access |-> << <<"sub", "taskUid">> >>,
          op |-> "tasks.get_task", label |-> "Task information: "]
    [] name = "cancel-tasks" ->
         [access |-> <<>>, op |-> "tasks.cancel_tasks", label |-> "Tasks cancelled: "]
    [] name = "get-keys" ->
         [access |-> <<>>, op |-> "keys.get_keys", label |-> "API keys: "]
    [] name = "create-key" ->
         [access |-> << <<"get", "description">>, <<"sub", "actions">>,
                        <<"sub", "indexes">>, <<"get", "expiresAt">> >>,
          op |-> "keys.create_key", label |-> "Created API key: "]
    [] name = "delete-key" ->
         [access |-> << <<"sub", "key">> >>,
          op |-> "keys.delete_key", label |-> "Successfully deleted API key: "]
    [] name = "get-health-status" ->
         [access |-> <<>>, op |-> "monitoring.get_health_status",
          label |-> "Health status: "]
    [] name = "get-index-metrics" ->
         [access |-> << <<"sub", "indexUid">> >>,
          op |-> "monitoring.get_index_metrics", label |-> "Index metrics: "]
    [] name = "get-system-info" ->
         [access |-> <<>>, op |-> "monitoring.get_system_information",
          label |-> "System information: "]
    [] name = "create-chat-workspace" ->
         [access |-> << <<"sub", "uid">>, <<"sub", "name">>,
                        <<"get", "description">>, <<"get", "model">>,
                        <<"get", "temperature">>, <<"get", "maxTokens">>,
                        <<"get", "indexUids">> >>,
          op |-> "chat.create_chat_workspace", label |-> "Chat workspace created: "]
    [] name = "update-chat-workspace" ->
         [access |-> << <<"sub", "uid">>, <<"get", "name">>,
                        <<"get", "description">>, <<"get", "model">>,
                        <<"get", "temperature">>, <<"get", "maxTokens">>,
                        <<"get", "indexUids">> >>,
          op |-> "chat.update_chat_workspace", label |-> "Chat workspace updated: "]
    [] name = "list-chat-workspaces" ->
         [access |-> << <<"get", "limit">>, <<"get", "offset">> >>,
          op |-> "chat.list_chat_workspaces", label |-> "Chat workspaces: "]
    [] name = "get-chat-workspace" ->
         [access |-> << <<"sub", "uid">> >>,
          op |-> "chat.get_chat_workspace", label |-> "Chat workspace: "]
    [] name = "delete-chat-workspace" ->
         [access |-> << <<"sub", "uid">> >>,
          op |-> "chat.delete_chat_workspace", label |-> "Chat workspace deleted: "]

SimpleTools ==
  HandledTools \ { "get-connection-settings", "update-connection-settings",
                   "get-documents", "add-documents", "get-tasks",
                   "chat-completion" }

\* the first argument access that raises, if any
RECURSIVE AccessError(_, _)
AccessError(arguments, access) ==
  IF access = <<>> THEN Ok(None)
  ELSE LET a == Head(access)
           r == IF a[1] = "sub" THEN PyGetItem(arguments, a[2])
                ELSE PyGet(arguments, a[2], None)
       IN IF r.raised THEN r ELSE AccessError(arguments, Tail(access))

\* Values a backend operation returns
TaskInfo == Dict("taskUid" :> Num(1))
HealthStatus == Obj("HealthStatus", Dict("status" :> Str("available")))

\* json_serializer (server.py), the `default` hook of json.dumps: what replaces
\* a value json cannot encode
json_serializer(obj) ==
  CASE obj.t = "datetime" -> Str(obj.iso)
    [] obj.t = "object"   -> obj.attrs
    [] OTHER              -> Str(PyStr(obj))

\* json.dumps(v, indent=2 or None, default=json_serializer) on the values of the
\* model
RECURSIVE JsonDumps(_, _)
JsonDumps(v, indent) ==
  CASE v = TaskInfo -> (IF indent THEN "{\n  \"taskUid\": 1\n}" ELSE "{\"taskUid\": 1}")
    [] v = Dict("status" :> Str("available")) ->
         (IF indent THEN "{\n  \"status\": \"available\"\n}"
          ELSE "{\"status\": \"available\"}")
    [] v = EmptyDict -> "{}"
    [] v.t = "bool"  -> (IF v.b THEN "true" ELSE "false")
    [] v.t = "null"  -> "null"
    [] v.t = "num"   -> PyStr(v)
    [] v.t = "str"   -> "\"" \o v.s \o "\""
    [] OTHER         -> JsonDumps(json_serializer(v), indent)

\* "".join(response_chunks): every item must be a str
RECURSIVE Join(_, _)
Join(chunks, i) ==
  IF i > Len(chunks) THEN Ok("")
  ELSE IF chunks[i].t # "str"
  THEN Raise("TypeError", "sequence item " \o PyStr(Num(i - 1))
                          \o ": expected str instance, "
                          \o TypeName(chunks[i]) \o " found")
  ELSE LET rest == Join(chunks, i + 1) IN
       IF rest.raised THEN rest ELSE Ok(chunks[i].s \o rest.val)

\* the keys tasks.get_tasks accepts
valid_params ==
  { "limit", "from", "reverse", "batchUids", "uids", "canceledBy", "types",
    "statuses", "indexUids", "afterEnqueuedAt", "beforeEnqueuedAt",
    "afterStartedAt", "beforeStartedAt", "afterFinishedAt", "beforeFinishedAt" }

NoCall == [op |-> "", args |-> <<>>]
Call(op, args) == [op |-> op, args |-> args]

\* What a branch did: the connection state it leaves, the backend operation it
\* called, and the text it returns or the exception it raises.
Res(conn, call, out) == [conn |-> conn, call |-> call, out |-> out]

\* the text of a simple branch, from the result r of its backend operation
Render(name, label, arguments, r) ==
  CASE name = "delete-index" -> Ok(label \o PyStr(arguments.map["uid"]))
    [] name = "delete-key"   -> Ok(label \o PyStr(arguments.map["key"]))
    [] name = "health-check" ->
         Ok(label \o (IF PyTruthy(r) THEN "available" ELSE "unavailable"))
    [] name \in {"get-health-status", "get-index-metrics"} ->
         IF r.t = "object" THEN Ok(label \o JsonDumps(r.attrs, FALSE))
         ELSE Raise("AttributeError",
                    "'" \o TypeName(r) \o "' object has no attribute '__dict__'")
    [] name = "search" ->
         Ok(label \o "'" \o PyStr(arguments.map["query"]) \o "':\n"
                  \o JsonDumps(r, TRUE))
    [] name \in {"list-indexes", "create-chat-workspace", "update-chat-workspace",
                 "list-chat-workspaces", "get-chat-workspace",
                 "delete-chat-workspace"} ->
         Ok(label \o JsonDumps(r, TRUE))
    [] OTHER -> Ok(label \o PyStr(r))

\* (mutant: a missing key is not an error, the branch answers with its bare label)
SimpleCall_MissingKeyIgnored(conn, name, t, arguments, err, ret) ==
  IF err.raised /\ err.cls = "KeyError" THEN Res(conn, NoCall, Ok(t.label))
  ELSE IF err.raised THEN Res(conn, NoCall, err)
  ELSE IF ret.raised THEN Res(conn, Call(t.op, <<arguments>>), ret)
  ELSE Res(conn, Call(t.op, <<arguments>>),
           Render(name, t.label, arguments, ret.val))

\* the branches of SimpleTools
SimpleCall(conn, name, t, arguments, err, ret) ==
  IF err.raised THEN Res(conn, NoCall, err)
  ELSE IF ret.raised THEN Res(conn, Call(t.op, <<arguments>>), ret)
  ELSE Res(conn, Call(t.op, <<arguments>>),
           Render(name, t.label, arguments, ret.val))

SimpleBranch(conn, name, arguments, backend) ==
  SimpleCall(conn, name, SimpleTool(name), arguments,
             AccessError(arguments, SimpleTool(name).access), backend.ret)

\* (mutant: the credential is printed)
GetConnectionSettings_ShowsKey(conn) ==
  Res(conn, NoCall,
      Ok("Current connection settings:\nURL: " \o PyStr(conn.url)
         \o "\nAPI Key: "
         \o (IF PyTruthy(conn.api_key) THEN PyStr(conn.api_key) ELSE "Not set")))

GetConnectionSettings(conn) ==
  Res(conn, NoCall,
      Ok("Current connection settings:\nURL: " \o PyStr(conn.url)
         \o "\nAPI Key: "
         \o (IF PyTruthy(conn.api_key) THEN "********" ELSE "Not set")))

\* (mutant: the confirmation does not carry the URL)
Updated_NoUrl(upd) ==
  IF upd.out.raised THEN Res(upd.conn, NoCall, upd.out)
  ELSE Res(upd.conn, NoCall, Ok("Successfully updated connection settings"))

\* the update-connection-settings branch once update_connection ended as upd
Updated(upd) ==
  IF upd.out.raised THEN Res(upd.conn, NoCall, upd.out)
  ELSE Res(upd.conn, NoCall,
           Ok("Successfully updated connection settings to URL: "
              \o PyStr(upd.conn.url)))

UpdateConnectionSettings(conn, arguments) ==
  IF PyGet(arguments, "url", None).raised
  THEN Res(conn, NoCall, PyGet(arguments, "url", None))
  ELSE Updated(update_connection(conn, PyGet(arguments, "url", None).val,
                                 PyGet(arguments, "api_key", None).val))

\* (mutant: no fallback values, an omitted offset or limit is passed as None)
GetDocuments_NoDefaults(conn, arguments) ==
  IF PyGet(arguments, "offset", None).raised
  THEN Res(conn, NoCall, PyGet(arguments, "offset", None))
  ELSE IF PyGetItem(arguments, "indexUid").raised
  THEN Res(conn, NoCall, PyGetItem(arguments, "indexUid"))
  ELSE Res(conn,
           Call("documents.get_documents",
                <<arguments.map["indexUid"], PyGet(arguments, "offset", None).val,
                  PyGet(arguments, "limit", None).val>>),
           Ok("Documents:\n"
              \o JsonDumps(Coroutine("DocumentManager.get_documents"), TRUE)))

\* documents.get_documents is an `async def` that the branch calls without
\* awaiting it: the call binds its arguments and returns a coroutine object.
GetDocuments(conn, arguments) ==
  LET offset == PyGet(arguments, "offset", Num(0))
      limit == PyGet(arguments, "limit", Num(20))
      indexUid == PyGetItem(arguments, "indexUid")
  IN IF offset.raised THEN Res(conn, NoCall, offset)
     ELSE IF indexUid.raised THEN Res(conn, NoCall, indexUid)
     ELSE Res(conn,
              Call("documents.get_documents",
                   <<indexUid.val, offset.val, limit.val>>),
              Ok("Documents:\n"
                 \o JsonDumps(Coroutine("DocumentManager.get_documents"), TRUE)))

AddDocuments(conn, arguments) ==
  LET err == AccessError(arguments, << <<"sub", "indexUid">>, <<"sub", "documents">>,
                                       <<"get", "primaryKey">> >>)
  IN IF err.raised THEN Res(conn, NoCall, err)
     ELSE Res(conn,
              Call("documents.add_documents",
                   <<arguments.map["indexUid"], arguments.map["documents"],
                     PyGet(arguments, "primaryKey", None).val>>),
              Ok("Added documents: "
                 \o PyStr(Coroutine("DocumentManager.add_documents"))))

\* (mutant: the bag is handed over unfiltered)
GetTasks_Unfiltered(conn, arguments, backend) ==
  LET filtered_args == IF PyTruthy(arguments) THEN arguments ELSE EmptyDict
  IN IF backend.ret.raised
     THEN Res(conn, Call("tasks.get_tasks", <<filtered_args>>), backend.ret)
     ELSE Res(conn, Call("tasks.get_tasks", <<filtered_args>>),
              Ok("Tasks: " \o PyStr(backend.ret.val)))

GetTasks(conn, arguments, backend) ==
  LET filtered_args ==
        IF PyTruthy(arguments)
        THEN Dict([k \in DOMAIN arguments.map \cap valid_params |-> arguments.map[k]])
        ELSE EmptyDict
  IN IF backend.ret.raised
     THEN Res(conn, Call("tasks.get_tasks", <<filtered_args>>), backend.ret)
     ELSE Res(conn, Call("tasks.get_tasks", <<filtered_args>>),
              Ok("Tasks: " \o PyStr(backend.ret.val)))

\* (mutant: when the stream raises after some fragments, they are joined and
\* returned)
Collected_KeepsPartialText(conn, call, run) ==
  IF run.exc # NoExc /\ run.chunks = <<>>
  THEN Res(conn, call, Raise(run.exc.cls, run.exc.msg))
  ELSE Res(conn, call, Join(run.chunks, 1))

\* (run is how the `async for` over chat_completion_stream ended)
Collected(conn, call, run) ==
  IF run.exc # NoExc THEN Res(conn, call, Raise(run.exc.cls, run.exc.msg))
  ELSE Res(conn, call, Join(run.chunks, 1))

ChatCompletion(conn, arguments, backend) ==
  LET stream == PyGet(arguments, "stream", Bool(TRUE))
      query == PyGetItem(arguments, "query")
  IN IF stream.raised THEN Res(conn, NoCall, stream)
     ELSE IF query.raised THEN Res(conn, NoCall, query)
     ELSE IF PyTruthy(stream.val)
     THEN Collected(conn, Call("chat.chat_completion_stream", <<query.val>>),
                    chat_completion_stream(backend.body, backend.transport))
     ELSE LET call == Call("chat.chat_completion", <<query.val>>) IN
          IF backend.ret.raised THEN Res(conn, call, backend.ret)
          ELSE Res(conn, call, Ok(JsonDumps(backend.ret.val, TRUE)))

\* (mutant: the message does not name the tool)
UnknownTool_NoName(conn, name) ==
  Res(conn, NoCall, Raise("ValueError", "Unknown tool"))

\* no branch matched: raise ValueError(f"Unknown tool: {name}")
UnknownTool(conn, name) ==
  Res(conn, NoCall, Raise("ValueError", "Unknown tool: " \o name))

\* the body of the try block of handle_call_tool
ToolBody(conn, name, arguments, backend) ==
  LET b == Branch(name) IN
  CASE b = "get-connection-settings"    -> GetConnectionSettings(conn)
    [] b = "update-connection-settings" -> UpdateConnectionSettings(conn, arguments)
    [] b = "get-documents"              -> GetDocuments(conn, arguments)
    [] b = "add-documents"              -> AddDocuments(conn, arguments)
    [] b = "get-tasks"                  -> GetTasks(conn, arguments, backend)
    [] b = "chat-completion"            -> ChatCompletion(conn, arguments, backend)
    [] b \in SimpleTools                -> SimpleBranch(conn, b, arguments, backend)
    [] OTHER                            -> UnknownTool(conn, name)

\* (mutant: the clause is `except ValueError`)
CaughtByExceptException_OnlyValueError(cls) == cls = "ValueError"

\* `except Exception`: the classes the clause catches (everything but the
\* BaseException-only ones)
CaughtByExceptException(cls) ==
  cls \notin {"KeyboardInterrupt", "SystemExit", "GeneratorExit", "CancelledError"}

TextContent(text) == [type |-> "text", text |-> text]

NoLog == [tool |-> "", error |-> "", arguments |-> None]

\* handle_call_tool(name, arguments): the connection state it leaves, the backend
\* call it made, the envelopes it returned (one, or none when the exception
\* propagated), the propagated exception and the logger.error record.
\* (mutant: the text carries the class of the exception instead of str(e))
Guarded_TextIsClass(name, arguments, b) ==
  IF ~b.out.raised
  THEN [conn |-> b.conn, call |-> b.call,
        envelopes |-> << <<TextContent(b.out.val)>> >>,
        propagated |-> NoExc, log |-> NoLog]
  ELSE [conn |-> b.conn, call |-> b.call,
        envelopes |-> << <<TextContent("Error: " \o b.out.cls)>> >>,
        propagated |-> NoExc,
        log |-> [tool |-> name, error |-> b.out.msg, arguments |-> arguments]]

\* (Guarded is the try/except around the body, whose outcome is b)
Guarded(name, arguments, b) ==
  IF ~b.out.raised
  THEN [conn |-> b.conn, call |-> b.call,
        envelopes |-> << <<TextContent(b.out.val)>> >>,
        propagated |-> NoExc, log |-> NoLog]
  ELSE IF CaughtByExceptException(b.out.cls)
  THEN [conn |-> b.conn, call |-> b.call,
        envelopes |-> << <<TextContent("Error: " \o b.out.msg)>> >>,
        propagated |-> NoExc,
        log |-> [tool |-> name, error |-> b.out.msg, arguments |-> arguments]]
  ELSE [conn |-> b.conn, call |-> b.call, envelopes |-> <<>>,
        propagated |-> Exc(b.out.cls, b.out.msg), log |-> NoLog]

handle_call_tool(conn, name, arguments, backend) ==
  Guarded(name, arguments, ToolBody(conn, name, arguments, backend))

(***************************************************************************)
(* json.dumps(obj, default=json_serializer) and json.loads on any value.   *)
(* JSON text is the sequence of its tokens.                                *)
(***************************************************************************)
\* a datetime, with what isoformat() gives for it
DateTime(iso) == [t |-> "datetime", iso |-> iso]
\* a reference, inside the attributes of an object, back to an object that
\* encloses it: up = 0 is the nearest one
BackRef(up) == [t |-> "backref", up |-> up]

\* json_serializer of documents.py
documents_json_serializer(obj) ==
  IF obj.t = "datetime" THEN Str(obj.iso) ELSE Str(PyStr(obj))

\* the function given as default=: the json_serializer of server.py or of
\* documents.py
Default(module, obj) ==
  IF module = "server" THEN json_serializer(obj) ELSE documents_json_serializer(obj)

Tok(k, s) == [k |-> k, s |-> s]
Punct(s) == Tok("punct", s)

\* (mutant: numbers are not encoded natively, default= is asked for them)
Native_NoNumbers(o) == o.t \in {"null", "bool", "str", "list", "dict"}

\* the values json encodes by itself, without calling default=
Native(o) == o.t \in {"null", "bool", "num", "str", "list", "dict"}

\* a after b, when neither raised
Both(a, b) ==
  IF a.raised THEN a ELSE IF b.raised THEN b ELSE Ok(a.val \o b.val)
Between(open, r, close) ==
  IF r.raised THEN r ELSE Ok(<<Punct(open)>> \o r.val \o <<Punct(close)>>)
InMarkers(o, markers) == \E i \in 1..Len(markers) : markers[i] = o
Without(m, k) == [x \in DOMAIN m \ {k} |-> m[x]]
Comma(more) == IF more THEN <<Punct(",")>> ELSE <<>>

\* json's encoder: markers are the objects default= is being applied to, and
\* meeting one of them again is a circular reference
RECURSIVE Encode(_, _, _)
RECURSIVE EncodeItems(_, _, _)
RECURSIVE EncodeMembers(_, _, _)
RECURSIVE EncodeMember(_, _, _, _)
Encode(o, module, markers) ==
  IF o.t = "backref" THEN Encode(markers[Len(markers) - o.up], module, markers)
  ELSE IF ~Native(o)
  THEN (IF InMarkers(o, markers)
        THEN Raise("ValueError", "Circular reference detected")
        ELSE Encode(Default(module, o), module, Append(markers, o)))
  ELSE CASE o.t = "null" -> Ok(<<Tok("lit", "null")>>)
         [] o.t = "bool" -> Ok(<<Tok("lit", IF o.b THEN "true" ELSE "false")>>)
         [] o.t = "num"  -> Ok(<<Tok("num", PyStr(o))>>)
         [] o.t = "str"  -> Ok(<<Tok("str", o.s)>>)
         [] o.t = "list" -> Between("[", EncodeItems(o.items, module, markers), "]")
         [] o.t = "dict" -> Between("{", EncodeMembers(o.map, module, markers), "}")

EncodeItems(q, module, markers) ==
  IF q = <<>> THEN Ok(<<>>)
  ELSE Both(Both(Encode(Head(q), module, markers), Ok(Comma(Len(q) > 1))),
            EncodeItems(Tail(q), module, markers))

EncodeMember(m, k, module, markers) ==
  Both(Both(Ok(<<Tok("str", k), Punct(":")>>), Encode(m[k], module, markers)),
       Both(Ok(Comma(DOMAIN m # {k})),
            EncodeMembers(Without(m, k), module, markers)))

EncodeMembers(m, module, markers) ==
  IF DOMAIN m = {} THEN Ok(<<>>)
  ELSE EncodeMember(m, CHOOSE k \in DOMAIN m : TRUE, module, markers)

\* json.dumps(obj, default=<json_serializer of module>)
Dumps(obj, module) == Encode(obj, module, <<>>)

\* json's decoder, on the text json.dumps produced: the value and the rest of
\* the text
IntOf(s) == IF s = "20" THEN 20 ELSE (CHOOSE n \in 0..9 : Digits[n + 1] = s)
Parsed(v, rest) == [val |-> v, rest |-> rest]

RECURSIVE Parse(_)
RECURSIVE ParseItems(_, _)
RECURSIVE ParseMembers(_, _)
RECURSIVE ItemParsed(_, _)
RECURSIVE MemberParsed(_, _, _)
Parse(toks) ==
  CASE Head(toks).k = "lit" ->
         Parsed(IF Head(toks).s = "null" THEN None ELSE Bool(Head(toks).s = "true"),
                Tail(toks))
    [] Head(toks).k = "num" -> Parsed(Num(IntOf(Head(toks).s)), Tail(toks))
    [] Head(toks).k = "str" -> Parsed(Str(Head(toks).s), Tail(toks))
    [] Head(toks) = Punct("[") -> ParseItems(Tail(toks), <<>>)
    [] Head(toks) = Punct("{") -> ParseMembers(Tail(toks), <<>>)

ItemParsed(r, acc) == ParseItems(r.rest, Append(acc, r.val))

ParseItems(toks, acc) ==
  IF Head(toks) = Punct("]") THEN Parsed(List(acc), Tail(toks))
  ELSE IF Head(toks) = Punct(",") THEN ParseItems(Tail(toks), acc)
  ELSE ItemParsed(Parse(toks), acc)

MemberParsed(k, r, acc) == ParseMembers(r.rest, (k :> r.val) @@ acc)

ParseMembers(toks, acc) ==
  IF Head(toks) = Punct("}") THEN Parsed(Dict(acc), Tail(toks))
  ELSE IF Head(toks) = Punct(",") THEN ParseMembers(Tail(toks), acc)
  ELSE MemberParsed(toks[1].s, Parse(Tail(Tail(toks))), acc)

\* json.loads(text)
Loads(toks) == Parse(toks).val

(***************************************************************************)
(* Inputs of handle_call_tool explored by the model.                       *)
(***************************************************************************)
\* a key that a bag does not have
Absent == [t |-> "absent"]
WithKey(m, key, v) == IF v = Absent THEN m ELSE (key :> v) @@ m

DefaultUrl == Str("http://localhost:7700")

\* update-connection-settings (and get-connection-settings, whose branch ignores
\* its arguments): url and api_key omitted, null, empty, a string, or a value of
\* another type
UpdateBags ==
  {None} \cup
  { Dict(WithKey(WithKey(<<>>, "url", u), "api_key", k)) :
      u \in {Absent, None, Str(""), Str("http://x:9"), Num(7)},
      k \in {Absent, Str(""), Str("k")} }

DocBags ==
  {None} \cup
  { Dict(WithKey(WithKey(WithKey(<<>>, "indexUid", i), "offset", o), "limit", l)) :
      i \in {Absent, Str("movies")},
      o \in {Absent, None, Num(5)},
      l \in {Absent, None, Num(3)} }

TaskBags ==
  { None, EmptyDict, Dict("limit" :> Num(3)), Dict("bogus" :> Str("x")),
    Dict(("limit" :> Num(3)) @@ ("bogus" :> Str("x"))) }

ChatBags ==
  {None, EmptyDict} \cup
  { Dict(WithKey("query" :> Str("hi"), "stream", st)) :
      st \in {Absent, Bool(TRUE), Bool(FALSE)} }

\* a bag with every key a simple branch subscripts, and a key none of them reads
FullBag ==
  Dict([key \in {"uid", "indexUid", "query", "key", "name"} |-> Str("x")]
       @@ ("taskUid" :> Num(1)) @@ ("settings" :> EmptyDict)
       @@ ("documents" :> List(<<EmptyDict>>))
       @@ ("actions" :> List(<<Str("search")>>))
       @@ ("indexes" :> List(<<Str("*")>>))
       @@ ("url" :> Str("http://x:9")))

\* a bag with the first key a branch subscripts, without the second
FirstKeyBag ==
  Dict([key \in {"uid", "indexUid"} |-> Str("x")]
       @@ ("actions" :> List(<<Str("search")>>)))

ToolNames == HandledTools \cup {"non-existent-tool", "delete-document"}

ArgBags(name) ==
  CASE name = "update-connection-settings" -> UpdateBags
    [] name = "get-connection-settings" ->
         {None, EmptyDict, Dict("url" :> Str("http://x:9"))}
    [] name = "get-documents"   -> DocBags
    [] name = "get-tasks"       -> TaskBags
    [] name = "chat-completion" -> ChatBags
    [] name \in SimpleTools /\ SimpleTool(name).access = <<>> -> {None, EmptyDict}
    [] name \in {"add-documents", "update-settings", "create-key",
                 "create-chat-workspace"} ->
         {None, EmptyDict, FirstKeyBag, FullBag}
    [] OTHER                    -> {None, EmptyDict, FullBag}

\* what a backend operation does when it is called: it returns a value or raises
BackendReturns(op) ==
  { Raise("MeilisearchApiError", "API Error") } \cup
  CASE op = "health_check" -> {Ok(Bool(TRUE)), Ok(Bool(FALSE))}
    [] op \in {"monitoring.get_health_status", "monitoring.get_index_metrics"} ->
         {Ok(HealthStatus), Ok(TaskInfo)}
    [] op \in {"tasks.get_tasks", "chat.chat_completion"} ->
         {Ok(TaskInfo), Raise("ConnectError", "Connection refused")}
    [] OTHER -> {Ok(TaskInfo)}

\* the streamed bodies a chat-completion call may receive
ChatBodies ==
  LET A == DataLine("{\"choices\":[{\"delta\":{\"content\":\"A\"}}]}")
      B == DataLine("{\"choices\":[{\"delta\":{\"content\":\"B\"}}]}")
  IN { <<>>,
       <<DataLine("{\"choices\":[{\"delta\":{\"content\":\"Error: \"}}]}"), A>>,
       <<A, B>>,
       <<A, B, DataLine("[DONE]")>>,
       <<A, DataLine("not-json"), B, DataLine("[DONE]"), A>>,
       <<A, DataLine("5"), B>>,
       <<A, DataLine("{\"choices\":[{\"delta\":{\"content\":5}}]}")>> }

Backend(ret, lines, tr) == [ret |-> ret, body |-> lines, transport |-> tr]
NoBackend == Backend(Ok(None), <<>>, "ok")

\* the backend behaviours worth telling apart for an invocation: none when the
\* branch does not reach its backend operation
BackendsOf(op) ==
  CASE op = "chat.chat_completion_stream" ->
         { Backend(Ok(None), b, tr) : b \in ChatBodies, tr \in {"ok", "read_fails"} }
         \cup { Backend(Ok(None), <<>>, "open_fails") }
    [] op \in {"", "documents.get_documents", "documents.add_documents"} ->
         {NoBackend}
    [] OTHER -> { Backend(r, <<>>, "ok") : r \in BackendReturns(op) }

Backends(conn, name, arguments) ==
  BackendsOf(ToolBody(conn, name, arguments, NoBackend).call.op)

(***************************************************************************)
(* State.                                                                  *)
(***************************************************************************)
VARIABLES
  url,              \* MeilisearchMCPServer.url
  api_key,          \* MeilisearchMCPServer.api_key
  meili_client,     \* the adapter: the url and api_key it is bound to
  request,          \* the last invocation: name, arguments, backend behaviour
  response,         \* what it gave its caller: envelopes, propagated exception
  backend_call,     \* the backend operation it called, with its arguments
  error_log,        \* the record it passed to logger.error
  http_request,     \* the HTTP request its ChatManager call sent, or NoHttp
  tasks,            \* the invocations suspended in the streaming chat call
  tools,            \* what the last handle_list_tools returned, <<>> before any
  body,             \* the lines of the streamed response body
  transport,        \* how the HTTP exchange goes
  pos,              \* index of the next line aiter_lines() will deliver
  response_chunks,  \* the fragments yielded so far, in order
  stream_state,     \* "new", "open", "done" or "raised"
  stream_exc,       \* the exception that left the generator, or NoExc
  ser_obj,          \* the value handed to json.dumps
  ser_module,       \* whose json_serializer is default=: "server" or "documents"
  ser_dumped,       \* what json.dumps gave: the text, or the exception
  ser_loaded,       \* what json.loads gave for that text
  ser_pc,           \* "new", "dumped", "raised" or "loaded"
  ser_pass,         \* 1, or 2 when ser_obj is the value the first pass loaded
  ser_first         \* the value and the text of the first pass

server_vars ==
  <<url, api_key, meili_client, request, response, backend_call, error_log,
    http_request, tasks, tools>>
stream_vars == <<body, transport, pos, response_chunks, stream_state, stream_exc>>
ser_vars ==
  <<ser_obj, ser_module, ser_dumped, ser_loaded, ser_pc, ser_pass, ser_first>>
vars == <<server_vars, stream_vars, ser_vars>>

\* the handler tasks the event loop runs side by side; one that is suspended
\* holds the adapter whose chat_completion_stream it is iterating
MaxTasks == 2
Tasks == 1..MaxTasks
IdleTask == [pc |-> "idle", url |-> None, api_key |-> None, adapter |-> None,
             arguments |-> None]

NoRequest == [name |-> "(none)", arguments |-> None, backend |-> NoBackend]
NoResponse == [envelopes |-> <<>>, propagated |-> NoExc]

\* MeilisearchMCPServer.__init__
ServerInit ==
  /\ url = DefaultUrl
  /\ api_key \in {None, Str("masterKey")}
  /\ meili_client = MeilisearchClient(url, api_key).val
  /\ request = NoRequest
  /\ response = NoResponse
  /\ backend_call = NoCall
  /\ error_log = NoLog
  /\ http_request = NoHttp
  /\ tasks = [t \in Tasks |-> IdleTask]
  /\ tools = <<>>

\* the decoder before a stream is opened
StreamIdle ==
  /\ body = <<>>
  /\ transport = "ok"
  /\ pos = 1
  /\ response_chunks = <<>>
  /\ stream_state = "new"
  /\ stream_exc = NoExc

\* one invocation of handle_call_tool, from its call to its return
HandleCallTool ==
  \E name \in ToolNames :
    \E conn \in {[url |-> url, api_key |-> api_key, meili_client |-> meili_client]} :
      \E arguments \in ArgBags(name) :
        \E backend \in Backends(conn, name, arguments) :
          \E r \in {handle_call_tool(conn, name, arguments, backend)} :
            /\ url' = r.conn.url
            /\ api_key' = r.conn.api_key
            /\ meili_client' = r.conn.meili_client
            /\ request' = [name |-> name, arguments |-> arguments, backend |-> backend]
            /\ response' = [envelopes |-> r.envelopes, propagated |-> r.propagated]
            /\ backend_call' = r.call
            /\ error_log' = r.log
            /\ http_request' = HttpRequest(r.call.op, conn.meili_client)
            /\ UNCHANGED <<tasks, tools, stream_vars, ser_vars>>

\* one call of handle_list_tools
HandleListTools ==
  /\ tools' = handle_list_tools([url |-> url, api_key |-> api_key,
                                 meili_client |-> meili_client])
  /\ UNCHANGED <<url, api_key, meili_client, request, response, backend_call,
                 error_log, http_request, tasks, stream_vars, ser_vars>>

\* no value is being serialized
SerializerIdle ==
  /\ ser_obj = None
  /\ ser_module = "server"
  /\ ser_dumped = Ok(<<>>)
  /\ ser_loaded = None
  /\ ser_pc = "new"
  /\ ser_pass = 1
  /\ ser_first = [obj |-> None, dumped |-> Ok(<<>>)]

Init == ServerInit /\ StreamIdle /\ SerializerIdle
Next == HandleCallTool \/ HandleListTools
Spec == Init /\ [][Next]_vars

(***************************************************************************)
(* The decoder, one line at a time.                                        *)
(***************************************************************************)
StreamInit ==
  /\ ServerInit
  /\ transport \in Transports
  /\ body \in (IF transport = "open_fails" THEN {<<>>} ELSE Bodies)
  /\ pos = 1
  /\ response_chunks = <<>>
  /\ stream_state = "new"
  /\ stream_exc = NoExc
  /\ SerializerIdle

\* client.stream(...) and response.raise_for_status()
OpenStream ==
  /\ stream_state = "new"
  /\ IF transport = "open_fails"
     THEN stream_state' = "raised" /\ stream_exc' = HTTPStatusError
     ELSE stream_state' = "open" /\ stream_exc' = NoExc
  /\ UNCHANGED <<body, transport, pos, response_chunks>>
  /\ UNCHANGED <<server_vars, ser_vars>>

\* one delivered line goes through the loop body
NextLine ==
  /\ stream_state = "open"
  /\ pos <= Len(body)
  /\ \E r \in {ProcessLine(body[pos])} :
       /\ pos' = pos + 1
       /\ response_chunks' = IF r.act = "yield"
                             THEN Append(response_chunks, r.content)
                             ELSE response_chunks
       /\ stream_state' = CASE r.act = "break" -> "done"
                            [] r.act = "raise" -> "raised"
                            [] OTHER -> "open"
       /\ stream_exc' = IF r.act = "raise" THEN Exc(r.cls, r.msg) ELSE NoExc
  /\ UNCHANGED <<body, transport>>
  /\ UNCHANGED <<server_vars, ser_vars>>

\* aiter_lines() is exhausted
EndOfStream ==
  /\ stream_state = "open"
  /\ pos > Len(body)
  /\ transport = "ok"
  /\ stream_state' = "done"
  /\ UNCHANGED <<body, transport, pos, response_chunks, stream_exc>>
  /\ UNCHANGED <<server_vars, ser_vars>>

\* aiter_lines() raises: the connection broke
StreamReadError ==
  /\ stream_state = "open"
  /\ pos > Len(body)
  /\ transport = "read_fails"
  /\ stream_state' = "raised"
  /\ stream_exc' = ReadError
  /\ UNCHANGED <<body, transport, pos, response_chunks>>
  /\ UNCHANGED <<server_vars, ser_vars>>

StreamNext == OpenStream \/ NextLine \/ EndOfStream \/ StreamReadError

SpecStream == StreamInit /\ [][StreamNext]_vars

StreamFinished == stream_state \in {"done", "raised"}

(***************************************************************************)
(* Serializing a result: json.dumps with default=json_serializer, and the  *)
(* json.loads of documents.py that turns the text back into a value.       *)
(***************************************************************************)
MaxItems == 2

Primitives == {None, Bool(TRUE), Bool(FALSE), Num(0), Num(7), Str(""), Str("a")}

\* values json does not encode by itself: a datetime, an object without
\* __dict__, an object with one, an object that holds itself, an object that
\* holds further such objects, two objects that hold each other
Unrecognized ==
  { DateTime("2024-01-02T03:04:05"),
    Coroutine("f"),
    Obj("Custom", Dict("x" :> Num(1))),
    Obj("Custom", Dict(("x" :> Num(1)) @@ ("me" :> BackRef(0)))),
    Obj("Custom", Dict(("inner" :> Coroutine("f"))
                       @@ ("when" :> DateTime("2024-01-02T03:04:05")))),
    Obj("A", Dict("b" :> Obj("B", Dict("a" :> BackRef(1))))) }

Atoms == Primitives \cup Unrecognized

SeqsUpTo(S, n) == UNION {[1..k -> S] : k \in 0..n}

\* the results serialized: atoms, sequences of atoms, mappings of them
Results ==
  Atoms
  \cup {List(q) : q \in SeqsUpTo(Atoms, MaxItems)}
  \cup {Dict("k" :> a) : a \in Atoms}
  \cup {Dict(("k" :> a) @@ ("items" :> List(<<p>>))) : a \in Atoms, p \in Primitives}

SerializerInit ==
  /\ ServerInit
  /\ StreamIdle
  /\ ser_obj \in Results
  /\ ser_module \in {"server", "documents"}
  /\ ser_dumped = Ok(<<>>)
  /\ ser_loaded = None
  /\ ser_pc = "new"
  /\ ser_pass = 1
  /\ ser_first = [obj |-> None, dumped |-> Ok(<<>>)]

\* json.dumps(ser_obj, default=json_serializer)
DumpsStep ==
  /\ ser_pc = "new"
  /\ \E r \in {Dumps(ser_obj, ser_module)} :
       /\ ser_dumped' = r
       /\ ser_pc' = IF r.raised THEN "raised" ELSE "dumped"
  /\ UNCHANGED <<ser_obj, ser_module, ser_loaded, ser_pass, ser_first>>
  /\ UNCHANGED <<server_vars, stream_vars>>

\* json.loads(...) of the text
LoadsStep ==
  /\ ser_pc = "dumped"
  /\ ser_loaded' = Loads(ser_dumped.val)
  /\ ser_pc' = "loaded"
  /\ UNCHANGED <<ser_obj, ser_module, ser_dumped, ser_pass, ser_first>>
  /\ UNCHANGED <<server_vars, stream_vars>>

\* the loaded value is serialized in its turn
SerializeAgain ==
  /\ ser_pc = "loaded"
  /\ ser_pass = 1
  /\ ser_first' = [obj |-> ser_obj, dumped |-> ser_dumped]
  /\ ser_obj' = ser_loaded
  /\ ser_dumped' = Ok(<<>>)
  /\ ser_loaded' = None
  /\ ser_pc' = "new"
  /\ ser_pass' = 2
  /\ UNCHANGED ser_module
  /\ UNCHANGED <<server_vars, stream_vars>>

SerializerNext == DumpsStep \/ LoadsStep \/ SerializeAgain
SpecSerializer == SerializerInit /\ [][SerializerNext]_vars


(***************************************************************************)
(* Invocations side by side: the handlers are coroutines of one event      *)
(* loop, and a handler gives way to the others only where it awaits.  The  *)
(* only awaits of handle_call_tool are those of the `async for` over       *)
(* chat_completion_stream (the opening of the stream and each line);       *)
(* every other branch, update_connection included, runs from its call to   *)
(* its return in one step.                                                 *)
(***************************************************************************)
\* the tools whose invocations are run next to the streaming ones
InterleavedTools == {"update-connection-settings", "get-connection-settings"}

InterleavedBags(name) ==
  IF name = "update-connection-settings"
  THEN { Dict(("url" :> Str("http://x:9")) @@ ("api_key" :> Str("k"))),
         Dict("url" :> Num(7)) }
  ELSE {EmptyDict}

\* how the stream of a suspended invocation may end once it is open
StreamEnds ==
  { b \in BackendsOf("chat.chat_completion_stream") :
      b.transport # "open_fails" /\ Len(b.body) \in {0, 3} }

\* an invocation of a tool whose branch awaits nothing
RunToCompletion ==
  \E name \in InterleavedTools :
    \E conn \in {[url |-> url, api_key |-> api_key, meili_client |-> meili_client]} :
      \E arguments \in InterleavedBags(name) :
        \E backend \in Backends(conn, name, arguments) :
          \E r \in {handle_call_tool(conn, name, arguments, backend)} :
            /\ url' = r.conn.url
            /\ api_key' = r.conn.api_key
            /\ meili_client' = r.conn.meili_client
            /\ request' = [name |-> name, arguments |-> arguments, backend |-> backend]
            /\ response' = [envelopes |-> r.envelopes, propagated |-> r.propagated]
            /\ backend_call' = r.call
            /\ error_log' = r.log
            /\ http_request' = HttpRequest(r.call.op, conn.meili_client)
            /\ UNCHANGED <<tasks, tools, stream_vars, ser_vars>>

\* chat-completion with stream on, up to its first await: the branch evaluates
\* self.meili_client.chat.chat_completion_stream(...) and the generator sends
\* the request with the base_url and the headers of that adapter
StartStream(t) ==
  /\ tasks[t].pc = "idle"
  /\ tasks' = [tasks EXCEPT ![t] =
                 [pc |-> "opening", url |-> url, api_key |-> api_key,
                  adapter |-> meili_client,
                  arguments |-> Dict("query" :> Str("hi"))]]
  /\ http_request' = HttpRequest("chat.chat_completion_stream", meili_client)
  /\ UNCHANGED <<url, api_key, meili_client, request, response, backend_call,
                 error_log, tools, stream_vars, ser_vars>>

\* the stream is open: the generator waits for a line
ResumeStream(t) ==
  /\ tasks[t].pc = "opening"
  /\ tasks' = [tasks EXCEPT ![t].pc = "reading"]
  /\ UNCHANGED <<url, api_key, meili_client, request, response, backend_call,
                 error_log, http_request, tools, stream_vars, ser_vars>>

\* the stream ended (or raised): the rest of the branch and the return
FinishStream(t) ==
  /\ tasks[t].pc \in {"opening", "reading"}
  /\ \E conn \in {[url |-> url, api_key |-> api_key, meili_client |-> meili_client]} :
       \E backend \in IF tasks[t].pc = "opening"
                      THEN {Backend(Ok(None), <<>>, "open_fails")}
                      ELSE StreamEnds :
         \E r \in {handle_call_tool(conn, "chat-completion", tasks[t].arguments,
                                    backend)} :
           /\ request' = [name |-> "chat-completion",
                          arguments |-> tasks[t].arguments, backend |-> backend]
           /\ response' = [envelopes |-> r.envelopes, propagated |-> r.propagated]
           /\ backend_call' = r.call
           /\ error_log' = r.log
  /\ tasks' = [tasks EXCEPT ![t] = IdleTask]
  /\ UNCHANGED <<url, api_key, meili_client, http_request, tools, stream_vars,
                 ser_vars>>

InterleavedNext ==
  \/ RunToCompletion
  \/ \E t \in Tasks : StartStream(t)
  \/ \E t \in Tasks : ResumeStream(t)
  \/ \E t \in Tasks : FinishStream(t)

SpecInterleaved == Init /\ [][InterleavedNext]_vars

(***************************************************************************)
(* Properties of the decoder (checked under SpecStream).                   *)
(***************************************************************************)
IsDone(line) == line = DataLine("[DONE]")

\* the lines that come before the first `data: [DONE]` line
RECURSIVE BeforeDone(_)
BeforeDone(lines) ==
  IF lines = <<>> \/ IsDone(Head(lines)) THEN <<>>
  ELSE <<Head(lines)>> \o BeforeDone(Tail(lines))

\* the value at choices[0].delta.content of a parsed payload, when the payload
\* has that path
HasContentPath(v) ==
  /\ v.t = "dict" /\ "choices" \in DOMAIN v.map
  /\ v.map["choices"].t = "list" /\ Len(v.map["choices"].items) > 0
  /\ LET c0 == v.map["choices"].items[1] IN
       /\ c0.t = "dict" /\ "delta" \in DOMAIN c0.map
       /\ c0.map["delta"].t = "dict" /\ "content" \in DOMAIN c0.map["delta"].map

ContentAtPath(v) == v.map["choices"].items[1].map["delta"].map["content"]

\* what a line contributes to the concatenation: its non-empty content value
LineContent(line) ==
  IF line.pre = "data: " /\ ~IsDone(line) /\ ~JsonLoads(line.data).raised
  THEN LET v == JsonLoads(line.data).val IN
         IF HasContentPath(v) /\ PyTruthy(ContentAtPath(v))
         THEN <<ContentAtPath(v)>> ELSE <<>>
  ELSE <<>>

RECURSIVE Concatenation(_)
Concatenation(lines) ==
  IF lines = <<>> THEN <<>>
  ELSE LineContent(Head(lines)) \o Concatenation(Tail(lines))

\* a `data: ` line whose payload json.loads rejects
IsMalformed(line) ==
  line.pre = "data: " /\ ~IsDone(line) /\ JsonLoads(line.data).raised

RemoveAt(seq, i) == SubSeq(seq, 1, i - 1) \o SubSeq(seq, i + 1, Len(seq))

\* the exceptions of the HTTP exchange itself, as opposed to those raised while
\* a delivered line is decoded
TransportExcs == {HTTPStatusError, ReadError}

\* C5: for every body, once the stream has ended the fragments produced are the
\* concatenation, in order, of the choices[0].delta.content values of the
\* `data: ` lines before the first `data: [DONE]` line.
C5_OutputIsConcatenationBeforeDone ==
  StreamFinished => response_chunks = Concatenation(BeforeDone(body))

\* (the same statement restricted to the runs in which no line makes the decoder
\* raise: this one holds, so C5 fails only through the exceptions of C7)
C5_HoldsUnlessALineRaises ==
  (StreamFinished /\ stream_exc \in TransportExcs \cup {NoExc})
    => response_chunks = Concatenation(BeforeDone(body))

\* C6: a `data: ` line with an unparseable payload, anywhere in the body, does not
\* abort decoding and contributes nothing: the outcome (fragments and the way the
\* stream ended) is that of the same body with the line removed.
C6_MalformedLineIsTransparent ==
  StreamFinished =>
    \A i \in 1..Len(body) :
      IsMalformed(body[i]) =>
        [chunks |-> response_chunks, exc |-> stream_exc]
          = chat_completion_stream(RemoveAt(body, i), transport)

\* a malformed line between two valid ones was decoded around
C6_Witness ==
  /\ stream_state = "done"
  /\ Len(body) = 3 /\ IsMalformed(body[2])
  /\ response_chunks = <<Str("A"), Str("B")>>

\* C7: once the stream is open the decoder never raises because of the content
\* of a line: a raised stream is a failure of the HTTP exchange.
C7_DecoderNeverRaisesOnLineContent ==
  stream_state = "raised" => stream_exc \in TransportExcs


(***************************************************************************)
(* Properties of handle_call_tool and of the connection state (checked     *)
(* under Spec).                                                            *)
(***************************************************************************)
Invoked == request # NoRequest
Arguments == request.arguments
HasKey(key) == Arguments.t = "dict" /\ key \in DOMAIN Arguments.map
OneTextBlock(text) == << <<TextContent(text)>> >>

\* C1: whatever the name, the argument bag (absent included) and the behaviour
\* of the backend, an invocation returns exactly one envelope and raises nothing
\* to its caller.
C1_OneEnvelopeNeverRaises ==
  Invoked => /\ Len(response.envelopes) = 1
             /\ Len(response.envelopes[1]) >= 1
             /\ response.propagated = NoExc

\* a stream that broke after delivering lines still ended in an envelope
C1_Witness ==
  /\ request.name = "chat-completion"
  /\ request.backend.transport = "read_fails"
  /\ request.backend.body # <<>>
  /\ error_log.error = ReadError.msg
  /\ Len(response.envelopes) = 1

\* the exception the backend operation of the last invocation raised, if it was
\* called and raised
BackendRaised ==
  CASE backend_call.op = "chat.chat_completion_stream" ->
         chat_completion_stream(request.backend.body, request.backend.transport).exc
    [] backend_call.op \in {"", "documents.get_documents", "documents.add_documents"} ->
         NoExc
    [] OTHER -> IF request.backend.ret.raised
                THEN Exc(request.backend.ret.cls, request.backend.ret.msg)
                ELSE NoExc

\* C2: when the backend operation of a tool raises an exception with message m,
\* the invocation returns one envelope with exactly one text block, "Error: "
\* followed by m, and nothing propagates.
C2_BackendErrorBecomesErrorText ==
  BackendRaised # NoExc =>
    /\ response.envelopes = OneTextBlock("Error: " \o BackendRaised.msg)
    /\ response.propagated = NoExc

C2_Witness ==
  /\ request.name = "create-index"
  /\ backend_call.op = "indexes.create_index"
  /\ request.backend.ret.raised
  /\ response.envelopes = OneTextBlock("Error: API Error")

\* C3 as stated: for a name outside the registry the text equals
\* "Unknown tool: <name>".
C3_UnknownToolTextAsStated ==
  (Invoked /\ request.name \notin HandledTools) =>
    response.envelopes = OneTextBlock("Unknown tool: " \o request.name)

\* C3 amended: for a name outside the registry the single text block equals
\* "Error: Unknown tool: <name>".
C3_UnknownToolErrorText ==
  (Invoked /\ request.name \notin HandledTools) =>
    response.envelopes = OneTextBlock("Error: Unknown tool: " \o request.name)

C3_Witness ==
  /\ request.name = "non-existent-tool"
  /\ response.envelopes = OneTextBlock("Error: Unknown tool: non-existent-tool")

\* C4: a get-documents invocation whose bag has indexUid calls the document
\* fetch with offset 0 for an omitted offset, limit 20 for an omitted limit, and
\* a supplied offset or limit unchanged.
C4_GetDocumentsDefaults ==
  (request.name = "get-documents" /\ HasKey("indexUid")) =>
    backend_call =
      Call("documents.get_documents",
           << Arguments.map["indexUid"],
              IF HasKey("offset") THEN Arguments.map["offset"] ELSE Num(0),
              IF HasKey("limit") THEN Arguments.map["limit"] ELSE Num(20) >>)

C4_Witness ==
  /\ request.name = "get-documents"
  /\ Arguments = Dict("indexUid" :> Str("movies"))
  /\ backend_call.args = <<Str("movies"), Num(0), Num(20)>>

\* the update-connection-settings invocation a step makes, with a bag
UpdateStep ==
  /\ request'.name = "update-connection-settings"
  /\ request'.arguments.t = "dict"

Given(key) == key \in DOMAIN request'.arguments.map

\* C8 as stated: each of url and api_key present in the bag becomes the stored
\* value, each omitted one keeps its prior value.
C8_PresentFieldsStoredAsStated ==
  [][UpdateStep =>
       /\ url' = IF Given("url") THEN request'.arguments.map["url"] ELSE url
       /\ api_key' = IF Given("api_key") THEN request'.arguments.map["api_key"]
                     ELSE api_key]_vars

\* C8 amended: each of url and api_key present in the bag with a non-empty
\* (truthy) value becomes the stored value; each one omitted, null or empty
\* keeps its prior value.
C8_NonEmptyFieldsStored ==
  [][UpdateStep =>
       /\ url' = IF Given("url") /\ PyTruthy(request'.arguments.map["url"])
                 THEN request'.arguments.map["url"] ELSE url
       /\ api_key' = IF Given("api_key") /\ PyTruthy(request'.arguments.map["api_key"])
                     THEN request'.arguments.map["api_key"] ELSE api_key]_vars

\* a bag with only url changed the URL and left the credential of construction
C8_Witness ==
  /\ request.name = "update-connection-settings"
  /\ Arguments = Dict("url" :> Str("http://x:9"))
  /\ url = Str("http://x:9")
  /\ api_key = Str("masterKey")

\* C9: between invocations the adapter is bound to exactly the stored URL and
\* the stored credential.
C9_AdapterBoundToStoredState ==
  /\ meili_client.url = url
  /\ meili_client.api_key = api_key

\* C10: an invocation of any tool other than update-connection-settings leaves
\* the stored URL, the stored credential and the adapter binding unchanged.
C10_OnlyUpdateChangesConnection ==
  [][request'.name # "update-connection-settings"
       => UNCHANGED <<url, api_key, meili_client>>]_vars

\* another tool ran, its backend raising, on a connection that had been updated
C10_Witness ==
  /\ request.name = "get-version"
  /\ request.backend.ret.raised
  /\ url = Str("http://x:9")
  /\ meili_client.url = url


\* the text of the single block of the response a step returns
Text == response.envelopes[1][1].text

\* the text get-connection-settings gives for a URL u and a masked credential
Reports(u, mask) ==
  "Current connection settings:\nURL: " \o PyStr(u) \o "\nAPI Key: " \o mask

ReportsUrl(text, u) == text \in {Reports(u, "********"), Reports(u, "Not set")}

\* a step that is a successful update-connection-settings whose bag has a url
UpdateSucceedsWithUrl ==
  /\ UpdateStep
  /\ error_log' = NoLog
  /\ Given("url")

\* the three step conditions that carry the URL of an update to every later
\* get-connection-settings: (1) an update that succeeds with url U confirms U and
\* stores it, when U satisfies scope; (2) get-connection-settings reports the
\* stored URL; (3) the stored URL changes only in an update-connection-settings
\* step whose bag supplies the new value.
UrlCarried(InScope(_)) ==
  /\ (UpdateSucceedsWithUrl /\ InScope(request'.arguments.map["url"])) =>
       /\ Text' = "Successfully updated connection settings to URL: "
                    \o PyStr(request'.arguments.map["url"])
       /\ url' = request'.arguments.map["url"]
  /\ request'.name = "get-connection-settings" =>
       /\ url' = url
       /\ ReportsUrl(Text', url)
  /\ url' # url =>
       /\ UpdateStep
       /\ Given("url")
       /\ request'.arguments.map["url"] = url'

AnyString(u) == u.t = "str"
NonEmptyString(u) == u.t = "str" /\ u.s # ""

\* C11 as stated: after update-connection-settings succeeds with url U, for any
\* string U, the confirmation ends with U and every later get-connection-settings
\* reports U until another update supplies a different url.
C11_UpdatedUrlReportedAsStated == [][UrlCarried(AnyString)]_vars

\* C11 amended: after update-connection-settings succeeds with a non-empty url U,
\* the confirmation ends with U and every later get-connection-settings reports
\* U as the URL until another update-connection-settings supplies a different
\* url, whatever other tools are invoked in between.
C11_NonEmptyUpdatedUrlReported == [][UrlCarried(NonEmptyString)]_vars

\* get-connection-settings reporting a URL that an earlier update stored
C11_Witness ==
  /\ request.name = "get-connection-settings"
  /\ url = Str("http://x:9")
  /\ Text = Reports(Str("http://x:9"), "Not set")


\* credentials a server may hold
Credentials == {Str("masterKey"), Str("k"), Str("s3cret")}

\* the envelopes of the last invocation, had the stored credential been k
EnvelopesWithCredential(k) ==
  handle_call_tool([url |-> url, api_key |-> k, meili_client |-> meili_client],
                   request.name, request.arguments, request.backend).envelopes

\* C12: the text of get-connection-settings shows the API key as exactly eight
\* asterisks when a credential is stored and as "Not set" when none is, and is
\* the same for any two states that differ only in the value of the stored
\* credential.
C12_CredentialNeverRevealed ==
  request.name = "get-connection-settings" =>
    /\ Text = Reports(url, IF api_key = None THEN "Not set" ELSE "********")
    /\ api_key # None =>
         \A k \in Credentials : EnvelopesWithCredential(k) = response.envelopes

C12_Witness ==
  /\ request.name = "get-connection-settings"
  /\ api_key = Str("k")
  /\ Text = Reports(url, "********")


(***************************************************************************)
(* Properties of the catalog (checked under Spec).                         *)
(***************************************************************************)
Listed == tools # <<>>
Names(catalog) == [i \in 1..Len(catalog) |-> catalog[i].name]
NameSet(catalog) == {catalog[i].name : i \in 1..Len(catalog)}

\* C13: once listTools has returned a catalog, every later call returns the same
\* one (same size, same names, same order), whatever tools are invoked in
\* between.
C13_CatalogStable ==
  [][Listed => (Len(tools') = Len(tools) /\ Names(tools') = Names(tools)
                /\ tools' = tools)]_vars

\* a catalog is held and the connection settings have been updated
C13_Witness ==
  /\ Listed
  /\ Names(tools)[1] = "get-connection-settings"
  /\ url = Str("http://x:9")
  /\ api_key = Str("k")

\* the 21 tools the claim names
ExpectedTools ==
  { "get-connection-settings", "update-connection-settings", "health-check",
    "get-version", "get-stats", "create-index", "list-indexes", "get-documents",
    "add-documents", "get-settings", "update-settings", "search", "get-task",
    "get-tasks", "cancel-tasks", "get-keys", "create-key", "delete-key",
    "get-health-status", "get-index-metrics", "get-system-info" }

\* the tools the catalog has besides
FurtherTools ==
  { "delete-index", "chat-completion", "create-chat-workspace",
    "update-chat-workspace", "list-chat-workspaces", "get-chat-workspace",
    "delete-chat-workspace" }

Descriptor(name) == CHOOSE d \in {Catalog[i] : i \in 1..Len(Catalog)} : d.name = name

\* the last invocation named a listed tool and its bag has a key the descriptor
\* of the tool does not declare
HasUndeclaredKey ==
  /\ request.name \in NameSet(Catalog)
  /\ Arguments.t = "dict"
  /\ ~(DOMAIN Arguments.map \subseteq Descriptor(request.name).properties)

\* the invocation ended in the error envelope without reaching a backend operation
Rejected == error_log # NoLog /\ backend_call = NoCall

\* C15: for every tool whose descriptor forbids additional properties, get-tasks
\* excepted, an invocation whose bag has an undeclared key is rejected and does
\* not run the operation of the tool as if the key were absent.
C15_UndeclaredKeyRejected ==
  (HasUndeclaredKey /\ ~Descriptor(request.name).additionalProperties
     /\ request.name # "get-tasks") => Rejected


\* the supplied keys of the allow-list, each with its supplied value
AllowedOf(arguments) ==
  IF arguments.t = "dict"
  THEN Dict([k \in DOMAIN arguments.map \cap valid_params |-> arguments.map[k]])
  ELSE EmptyDict

\* C16: for every get-tasks bag the mapping handed to the backend task query has
\* exactly the supplied keys of the allow-list, each with its supplied value;
\* other keys are dropped without an error (the only error is one the backend
\* raises); an absent or empty bag gives the empty mapping.
C16_GetTasksFiltersToAllowList ==
  request.name = "get-tasks" =>
    /\ backend_call = Call("tasks.get_tasks", <<AllowedOf(Arguments)>>)
    /\ Arguments \in {None, EmptyDict} => backend_call.args = <<EmptyDict>>
    /\ error_log # NoLog => request.backend.ret.raised

C16_Witness ==
  /\ request.name = "get-tasks"
  /\ Arguments = Dict(("limit" :> Num(3)) @@ ("bogus" :> Str("x")))
  /\ backend_call.args = <<Dict("limit" :> Num(3))>>
  /\ error_log = NoLog


(***************************************************************************)
(* Properties of chat-completion (checked under Spec).                     *)
(***************************************************************************)
\* the last invocation was chat-completion with a query, in streaming mode
\* (stream true or omitted) or in blocking mode (stream false)
ChatInvoked == request.name = "chat-completion" /\ HasKey("query")
Streaming == ChatInvoked /\ (HasKey("stream") => Arguments.map["stream"] = Bool(TRUE))
Blocking == ChatInvoked /\ HasKey("stream") /\ Arguments.map["stream"] = Bool(FALSE)

\* how the decoder ran on the body the backend streamed
StreamRun == chat_completion_stream(request.backend.body, request.backend.transport)

\* the text of the block is the joined fragments of the whole stream
TextIsJoinedFragments ==
  /\ backend_call.op = "chat.chat_completion_stream"
  /\ response.envelopes = OneTextBlock(Text)
  /\ error_log = NoLog
  /\ Join(StreamRun.chunks, 1) = Ok(Text)

\* the text of the block is the serialized body of the blocking call
TextIsSerializedBody ==
  /\ backend_call.op = "chat.chat_completion"
  /\ response.envelopes = OneTextBlock(JsonDumps(request.backend.ret.val, TRUE))

\* C17: chat-completion returns one text block in both modes: with stream true
\* or omitted, and a connection that delivers the whole stream, the text is the
\* joined fragments; with stream false, and a blocking call that returns, the
\* text is the serialized response body.
C17_ChatCompletionOneBlockBothModes ==
  /\ (Streaming /\ request.backend.transport = "ok") => TextIsJoinedFragments
  /\ (Blocking /\ ~request.backend.ret.raised) => TextIsSerializedBody

\* the same, for the streams on which the decoder raises nothing and yields only
\* strings
C17_HoldsWhenFragmentsAreText ==
  /\ (Streaming /\ StreamRun.exc = NoExc
        /\ \A i \in 1..Len(StreamRun.chunks) : StreamRun.chunks[i].t = "str")
       => TextIsJoinedFragments
  /\ (Blocking /\ ~request.backend.ret.raised) => TextIsSerializedBody


(***************************************************************************)
(* Properties of the result serializer (checked under SpecSerializer).     *)
(***************************************************************************)
RECURSIVE IsPrimitive(_)
IsPrimitive(v) ==
  CASE v.t \in {"null", "bool", "num", "str"} -> TRUE
    [] v.t = "list" -> \A i \in 1..Len(v.items) : IsPrimitive(v.items[i])
    [] v.t = "dict" -> \A k \in DOMAIN v.map : IsPrimitive(v.map[k])
    [] OTHER -> FALSE

RECURSIVE HasBackRef(_)
HasBackRef(v) ==
  CASE v.t = "backref" -> TRUE
    [] v.t = "list" -> \E i \in 1..Len(v.items) : HasBackRef(v.items[i])
    [] v.t = "dict" -> \E k \in DOMAIN v.map : HasBackRef(v.map[k])
    [] v.t = "object" -> HasBackRef(v.attrs)
    [] OTHER -> FALSE

\* the text of a date/time is its ISO-8601 string, the text of any other
\* unrecognized value is not empty
RenderedAsSpecified ==
  ser_pc \in {"dumped", "loaded"} =>
    /\ ser_obj.t = "datetime" => ser_dumped.val = <<Tok("str", ser_obj.iso)>>
    /\ ser_obj \in Unrecognized =>
         (ser_dumped.val # <<>> /\ ser_dumped.val # <<Tok("str", "")>>)

\* C18: serializing a result never raises, for primitives, nested mappings and
\* sequences, date/time values (rendered as ISO-8601 strings) and unrecognized
\* objects (rendered as non-empty text), those that refer back to themselves or
\* hold further unrecognized objects included.
C18_SerializingNeverRaises ==
  /\ ser_pc # "raised"
  /\ RenderedAsSpecified

\* the same, for the json_serializer of documents.py, and for the one of
\* server.py on values without a reference back to an enclosing object
C18_HoldsWithoutBackReferences ==
  (ser_module = "documents" \/ ~HasBackRef(ser_obj)) =>
    (ser_pc # "raised" /\ RenderedAsSpecified)

DocumentsResults == {EmptyDict, TaskInfo, Dict("status" :> Str("available"))}

\* the text Python gives for an object it has no better form for
ObjectRepresentation ==
  JsonDumps(Coroutine("DocumentManager.get_documents"), TRUE)

\* C20: every successful get-documents invocation returns the `Documents:`
\* label followed by the JSON object or array of the documents the backend
\* returned, never by a language-level object representation.
C20_GetDocumentsReturnsJson ==
  (request.name = "get-documents" /\ error_log = NoLog) =>
    /\ \E d \in DocumentsResults : Text = "Documents:\n" \o JsonDumps(d, TRUE)
    /\ Text # "Documents:\n" \o ObjectRepresentation


(***************************************************************************)
(* Properties of failing invocations (checked under Spec).                 *)
(***************************************************************************)
\* the last invocation named a listed tool and its bag lacks a key the schema
\* of the tool marks required
LacksRequiredKey ==
  /\ request.name \in NameSet(Catalog)
  /\ Arguments.t = "dict"
  /\ ~(Descriptor(request.name).required \subseteq DOMAIN Arguments.map)

\* the response is the single block "Error: " followed by the logged message
ErrorEnvelope ==
  /\ error_log # NoLog
  /\ response.envelopes = OneTextBlock("Error: " \o error_log.error)
  /\ response.propagated = NoExc

\* C21: invoking a tool without a key its schema marks required returns a single
\* text block that starts with "Error:", and nothing is raised to the caller.
C21_MissingRequiredKeyIsError == LacksRequiredKey => ErrorEnvelope

C21_Witness ==
  /\ request.name = "create-index"
  /\ Arguments = EmptyDict
  /\ response.envelopes = OneTextBlock("Error: 'uid'")


(***************************************************************************)
(* Properties of the HTTP requests of the chat adapter (checked under      *)
(* Spec).                                                                  *)
(***************************************************************************)
\* C22: every HTTP request of the chat adapter carries the header
\* `Authorization: Bearer <credential>` when the client the adapter was built
\* from has a credential, and no Authorization header when it has none.
C22_BearerHeaderIffCredential ==
  http_request.sent =>
    IF meili_client.api_key \in {None, Str("")}
    THEN "Authorization" \notin DOMAIN http_request.headers
    ELSE /\ "Authorization" \in DOMAIN http_request.headers
         /\ http_request.headers["Authorization"]
              = "Bearer " \o meili_client.api_key.s

C22_Witness ==
  /\ http_request.sent
  /\ backend_call.op = "chat.create_chat_workspace"
  /\ meili_client.api_key = Str("k")
  /\ http_request.headers["Authorization"] = "Bearer k"

\* C24: every HTTP request of the chat adapter (streaming completion, blocking
\* completion, workspace create/update/list/get/delete) is sent with a timeout
\* of 60 seconds.
C24_ChatCallsHave60sTimeout ==
  http_request.sent => http_request.call.timeout = Timeout(60)

\* the same, for the two completion calls only
C24_CompletionCallsHave60sTimeout ==
  (http_request.sent /\ http_request.call.path = "/chat/completions") =>
    http_request.call.timeout = Timeout(60)

(***************************************************************************)
(* Properties of invocations side by side (checked under SpecInterleaved). *)
(***************************************************************************)
Suspended(t) == tasks[t].pc # "idle"

\* C23: update-connection-settings replaces URL, credential and adapter as
\* one step: every invocation uses an adapter bound to the URL and the
\* credential that were stored when it started, never a new URL together with
\* an old adapter or an old credential.
C23_InvocationsSeeWholeUpdates ==
  \A t \in Tasks :
    Suspended(t) =>
      /\ tasks[t].adapter.url = tasks[t].url
      /\ tasks[t].adapter.api_key = tasks[t].api_key

\* an update that ran while an invocation was suspended leaves that invocation
\* with the adapter it started with, the old URL and the old credential together
C23_SuspendedInvocationKeepsItsAdapter ==
  [][\A t \in Tasks :
       (Suspended(t) /\ tasks'[t].pc # "idle") =>
         /\ tasks'[t].adapter = tasks[t].adapter
         /\ tasks'[t].url = tasks[t].url
         /\ tasks'[t].api_key = tasks[t].api_key]_vars

\* an invocation that started after a successful update uses the new adapter,
\* next to one that started before it and still uses the old one
C23_OldAndNewSideBySide ==
  /\ tasks[1].pc = "reading"
  /\ tasks[1].adapter = [url |-> DefaultUrl, api_key |-> Str("masterKey")]
  /\ tasks[2].pc = "opening"
  /\ tasks[2].adapter = [url |-> Str("http://x:9"), api_key |-> Str("k")]
  /\ url = Str("http://x:9")

(***************************************************************************)
(* Further properties of the gateway (checked under Spec).                 *)
(***************************************************************************)
\* C25: when the streamed connection of chat-completion fails after some
\* fragments were received, the invocation returns the single block
\* `Error: <message>` and not the joined text of the fragments received.
C25_PartialStreamIsNotCommitted ==
  (Streaming /\ StreamRun.chunks # <<>> /\ StreamRun.exc = ReadError) =>
    /\ response.envelopes = OneTextBlock("Error: " \o ReadError.msg)
    /\ response.propagated = NoExc

C25_Witness ==
  /\ Streaming
  /\ request.backend.transport = "read_fails"
  /\ StreamRun.chunks = <<Str("A"), Str("B")>>
  /\ response.envelopes = OneTextBlock("Error: peer closed connection")

\* the invocation ended in the error of the final else of the dispatcher
AnsweredUnknownTool ==
  response.envelopes = OneTextBlock("Error: Unknown tool: " \o request.name)

\* C26: the catalog and the dispatcher agree: a tool name is answered with the
\* `Unknown tool` error if and only if it is not a name returned by listTools.
C26_UnknownIffNotListed ==
  (Invoked /\ Listed) =>
    (AnsweredUnknownTool <=> request.name \notin NameSet(tools))

\* a name of an older version of the catalog is neither listed nor handled
C26_Witness ==
  /\ Listed
  /\ request.name = "delete-document"
  /\ request.name \notin NameSet(tools)
  /\ AnsweredUnknownTool

\* the invocation failed: its exception was caught and logged
Failed == error_log # NoLog

\* what may follow the prefix in a text of the model: the message of the
\* error, or the fragments that follow a first fragment
Tails == {error_log.error, "", "A", "B", "AB"}

StartsWithErrorPrefix(text) == \E m \in Tails : text = "Error: " \o m

\* C27: the returned text starts with `Error: ` if and only if the invocation
\* failed; no successful invocation, chat-completion in streaming mode
\* included, returns a text that starts with `Error: `.
C27_ErrorPrefixIffFailed ==
  (Invoked /\ Len(response.envelopes) = 1) =>
    (StartsWithErrorPrefix(Text) <=> Failed)

\* one direction holds: the text of a failed invocation starts with the prefix
C27_FailedHasErrorPrefix ==
  (Invoked /\ Failed) => StartsWithErrorPrefix(Text)

\* the step is an update-connection-settings invocation that returned an
\* `Error: ` envelope
UpdateFailedStep ==
  /\ request'.name = "update-connection-settings"
  /\ error_log' # NoLog
  /\ response'.envelopes = OneTextBlock("Error: " \o error_log'.error)

\* C28: when update-connection-settings returns an `Error: ` envelope (absent
\* bag, or the adapter cannot be rebuilt), the stored URL, the stored
\* credential and the adapter binding are the same as before the invocation.
C28_FailedUpdateChangesNothing ==
  [][UpdateFailedStep => UNCHANGED <<url, api_key, meili_client>>]_vars

\* the case of the absent bag holds: the branch fails before update_connection
C28_AbsentBagChangesNothing ==
  [][(UpdateFailedStep /\ request'.arguments = None)
       => UNCHANGED <<url, api_key, meili_client>>]_vars

\* the step is an update-connection-settings invocation given "" for key
GivenEmpty(key) ==
  /\ UpdateStep
  /\ Given(key)
  /\ request'.arguments.map[key] = Str("")

\* C29: no invocation clears the connection state: a non-empty stored
\* credential stays non-empty, the stored URL is never replaced by an empty
\* value, and update-connection-settings with an empty-string url or api_key
\* leaves that field at its prior value.
C29_ConnectionStateNeverCleared ==
  [][/\ PyTruthy(url')
     /\ PyTruthy(api_key) => PyTruthy(api_key')
     /\ GivenEmpty("url") => url' = url
     /\ GivenEmpty("api_key") => api_key' = api_key]_vars

\* an update with both fields empty ran on the connection of construction
C29_Witness ==
  /\ request.name = "update-connection-settings"
  /\ Arguments = Dict(("url" :> Str("")) @@ ("api_key" :> Str("")))
  /\ url = DefaultUrl
  /\ api_key = Str("masterKey")
  /\ response.envelopes
       = OneTextBlock("Successfully updated connection settings to URL: "
                      \o DefaultUrl.s)

(***************************************************************************)
(* A further property of the decoder (checked under SpecStream).           *)
(***************************************************************************)
\* C30: every fragment the decoder yields is a non-empty text string (so the
\* join of the collected fragments never fails): a delta.content that is
\* empty, absent or not a string yields no fragment.
C30_FragmentsAreNonEmptyStrings ==
  \A i \in 1..Len(response_chunks) :
    /\ response_chunks[i].t = "str"
    /\ response_chunks[i].s # ""

\* what holds: no fragment is empty or null (the test is `if content:`)
C30_FragmentsAreTruthy ==
  \A i \in 1..Len(response_chunks) : PyTruthy(response_chunks[i])

====
